---------------------------- MODULE Spec2Model ----------------------------
(***************************************************************************)
(* The git-backed course store of backend/main.py (CourseMap API).         *)
(*                                                                         *)
(* The durable state is the content root: the directories, index.json,     *)
(* one course.json per course directory and one markdown file per topic.   *)
(* Requests are served by a pool of worker threads (the handlers are plain *)
(* `def`s), so the mutating handlers are modelled one file-system or       *)
(* subprocess call per step; each such call is atomic.  The read-only      *)
(* handlers are modelled as one step each.                                 *)
(*                                                                         *)
(* Text is a sequence of one-character strings.                            *)
(***************************************************************************)
EXTENDS Integers, Sequences, FiniteSets, TLC

(***************************************************************************)
(* Bounds of the model.                                                    *)
(***************************************************************************)
MaxRequests == 2

\* the most topics of the course on the large content root
MaxTopics == 50

\* the longest text slugify is applied to
MaxLen == 4

(***************************************************************************)
(* Program constants.                                                      *)
(***************************************************************************)
DefaultTime == 15

\* the threads that serve requests
Workers == { "w1", "w2" }
FirstWorker == "w1"

(***************************************************************************)
(* Characters and str methods.                                             *)
(***************************************************************************)
UpperChars ==
  << "A", "B", "C", "D", "E", "F", "G", "H", "I", "J", "K", "L", "M",
     "N", "O", "P", "Q", "R", "S", "T", "U", "V", "W", "X", "Y", "Z" >>

LowerChars ==
  << "a", "b", "c", "d", "e", "f", "g", "h", "i", "j", "k", "l", "m",
     "n", "o", "p", "q", "r", "s", "t", "u", "v", "w", "x", "y", "z" >>

Digits == { "0", "1", "2", "3", "4", "5", "6", "7", "8", "9" }

Range(s) == { s[i] : i \in DOMAIN s }

\* str.isspace for one character
isspace(c) == c \in { " ", "\t", "\n", "\r", "\f" }

\* the class \w of module re
isword(c) == c \in Range(UpperChars) \cup Range(LowerChars) \cup Digits \cup { "_" }

\* the lower-case letter of each upper-case one
LowerOf == [ c \in Range(UpperChars) |->
             LowerChars[CHOOSE i \in DOMAIN UpperChars : UpperChars[i] = c] ]

lower_char(c) == IF c \in DOMAIN LowerOf THEN LowerOf[c] ELSE c

\* str.lower
lower(s) == [ i \in 1..Len(s) |-> lower_char(s[i]) ]

RECURSIVE lstrip(_)
lstrip(s) ==
  IF s # << >> /\ isspace(Head(s)) THEN lstrip(Tail(s)) ELSE s

RECURSIVE rstrip(_)
rstrip(s) ==
  IF s # << >> /\ isspace(s[Len(s)]) THEN rstrip(SubSeq(s, 1, Len(s) - 1)) ELSE s

\* str.strip
strip(s) == rstrip(lstrip(s))

\* re.sub(r'[^\w\s-]', '', text)
remove_other(s) == SelectSeq(s, LAMBDA c : isword(c) \/ isspace(c) \/ c = "-")

issep(c) == isspace(c) \/ c = "-"

RECURSIVE skip_seps(_)
skip_seps(s) ==
  IF s # << >> /\ issep(Head(s)) THEN skip_seps(Tail(s)) ELSE s

\* re.sub(r'[-\s]+', '-', text)
RECURSIVE collapse_seps(_)
collapse_seps(s) ==
  IF s = << >> THEN << >>
  ELSE IF issep(Head(s)) THEN << "-" >> \o collapse_seps(skip_seps(s))
  ELSE << Head(s) >> \o collapse_seps(Tail(s))

\* slugify with the two substitutions in the other order
slugify_collapse_first(text) == remove_other(collapse_seps(strip(lower(text))))

\* slugify of main.py
slugify(text) == collapse_seps(remove_other(strip(lower(text))))

(***************************************************************************)
(* Paths under COURSES_DIR: the sequence of the components; an empty       *)
(* component ("a//b") names the same file as without it.                   *)
(***************************************************************************)
Path(components) == SelectSeq(components, LAMBDA c : c # << >>)

MdSuffix == << ".", "m", "d" >>

TemplateTail ==
  << "\n", "\n", "#", "#", " ", "O", "v", "e", "r", "v", "i", "e", "w", "\n",
     "W", "r", "i", "t", "e", " ", "y", "o", "u", "r", " ", "c", "o", "n", "t",
     "e", "n", "t", " ", "h", "e", "r", "e", ".", ".", ".", "\n", "\n",
     "#", "#", " ", "K", "e", "y", " ", "C", "o", "n", "c", "e", "p", "t", "s",
     "\n", "\n", "#", "#", " ", "E", "x", "a", "m", "p", "l", "e", "s", "\n",
     "\n", "#", "#", " ", "P", "r", "a", "c", "t", "i", "c", "e", " ",
     "P", "r", "o", "b", "l", "e", "m", "s", "\n" >>

\* the template of create_topic
Template(title) == << "#", " " >> \o title \o TemplateTail

(***************************************************************************)
(* Request bodies.                                                         *)
(***************************************************************************)
CourseCreate ==
  { [ code |-> << "A" >>, name |-> << "x" >> ],
    [ code |-> << "a" >>, name |-> << "X" >> ],
    [ code |-> << "B" >>, name |-> << "y" >> ] }

Titles == { << "T" >>, << "t" >>, << "U" >> }

ModuleCreate == { [ title |-> t ] : t \in Titles }

TopicCreate ==
  { [ title |-> t, priority |-> "medium", time |-> DefaultTime ] : t \in Titles }

NewContent == << "n", "e", "w" >>

\* TopicUpdate: has_x is FALSE for a field that is None
TopicUpdate ==
  { [ has_content |-> hc, content |-> IF hc THEN NewContent ELSE << >>,
      has_completed |-> fc[1], completed |-> fc[2] ] :
      hc \in BOOLEAN,
      fc \in { << FALSE, FALSE >>, << TRUE, FALSE >>, << TRUE, TRUE >> } }
    \ { [ has_content |-> TRUE, content |-> NewContent,
          has_completed |-> TRUE, completed |-> FALSE ] }

\* the ids requests name: of a course, of a module in a course, of a topic in a
\* module; each place is once 2 with 1 everywhere else, which is absent from
\* the smaller roots and present in the larger ones
CourseIds == { 1, 2 }
ModuleRefs == { << 1, 1 >>, << 1, 2 >>, << 2, 1 >> }
TopicRefs == { << 1, 1, 1 >>, << 1, 1, 2 >>, << 1, 2, 1 >>, << 2, 1, 1 >> }


(***************************************************************************)
(* State.                                                                  *)
(*   dirs    the directories under COURSES_DIR                             *)
(*   index   index.json: the sequence "courses" of {id, slug}              *)
(*   metas   the course.json files, by course slug                         *)
(*   files   the topic markdown files, by path                             *)
(*   pc, req, loc, resp   per worker: the place in the handler, the        *)
(*           request, the handler's local variables and the last response  *)
(*   started the number of requests accepted so far                        *)
(*   git     whether the git executable can be run                         *)
(***************************************************************************)
VARIABLES dirs, index, metas, files, pc, req, loc, resp, started, git

disk == << dirs, index, metas, files >>
vars == << dirs, index, metas, files, pc, req, loc, resp, started, git >>

NoFiles == [ x \in {} |-> << >> ]

Req0 ==
  [ op |-> "none", code |-> << >>, name |-> << >>, course_id |-> 0,
    module_id |-> 0, topic_id |-> 0, title |-> << >>, priority |-> "",
    time |-> 0, has_content |-> FALSE, content |-> << >>,
    has_completed |-> FALSE, completed |-> FALSE, q |-> << >> ]

\* slug: course_slug / course_ref["slug"]; meta: << >> is None;
\* module, topic: the places in meta of the objects `module` and `topic`;
\* commits: the messages git_commit_push was called with, in order
Loc0 ==
  [ slug |-> << >>, course_id |-> 0, index |-> << >>, meta |-> << >>,
    module |-> 0, topic |-> 0, commits |-> << >> ]

Resp0 == [ status |-> 0, detail |-> "", body |-> << >> ]

Ok(entity) == [ status |-> 200, detail |-> "", body |-> << entity >> ]
OkList(entities) == [ status |-> 200, detail |-> "", body |-> entities ]
HTTPException(status_code, detail) ==
  [ status |-> status_code, detail |-> detail, body |-> << >> ]
\* an exception no handler catches: the framework answers 500
Unhandled(exception) == [ status |-> 500, detail |-> exception, body |-> << >> ]

(***************************************************************************)
(* Helpers of main.py.                                                     *)
(***************************************************************************)
Prefixes(path) == { SubSeq(path, 1, n) : n \in 1..Len(path) }

\* os.makedirs(path, exist_ok=True)
makedirs(path) == dirs \cup Prefixes(Path(path))

get_course_meta(course_slug) ==
  IF course_slug \in DOMAIN metas THEN << metas[course_slug] >> ELSE << >>

\* save_course_meta: the directories and course.json files after it
save_course_meta_dirs(course_slug) == makedirs(<< course_slug >>)
save_course_meta(course_slug, data) == (course_slug :> data) @@ metas

\* next((x for x in seq if x["id"] == id), None): the place of the first, 0 for None
FirstWithId(seq, id) ==
  IF \E i \in DOMAIN seq : seq[i].id = id
    THEN CHOOSE i \in DOMAIN seq :
           seq[i].id = id /\ \A j \in 1..(i - 1) : seq[j].id # id
    ELSE 0

(***************************************************************************)
(* Python float arithmetic, as far as calculate_progress uses it:          *)
(* int / int, float * int and int(float), on numbers that are not negative.*)
(***************************************************************************)
\* a Python float (IEEE 754 binary64) that is not negative: sig is the
\* significand, MantDig bits with the leading one first (<< >> for 0.0), and
\* the value is sig / 2^(MantDig - 1) * 2^exp
MantDig == 53

\* the number of bits the multiplication handles at a time
Chunk == 10

Float0 == [ sig |-> << >>, exp |-> 0 ]

RECURSIVE Pow2(_)
Pow2(n) == IF n = 0 THEN 1 ELSE 2 * Pow2(n - 1)

\* 2^n modulo d
RECURSIVE Pow2Mod(_, _)
Pow2Mod(n, d) ==
  IF n = 0 THEN 1 % d
  ELSE LET half == Pow2Mod(n \div 2, d)
       IN (half * half * (IF n % 2 = 1 THEN 2 ELSE 1)) % d

\* the bits of the natural number n, the leading one first
RECURSIVE ToBits(_)
ToBits(n) == IF n = 0 THEN << >> ELSE Append(ToBits(n \div 2), n % 2)

\* the lowest width bits of n
FixedBits(n, width) == [ i \in 1..width |-> (n \div Pow2(width - i)) % 2 ]

RECURSIVE FromBits(_)
FromBits(bits) ==
  IF bits = << >> THEN 0
  ELSE 2 * FromBits(SubSeq(bits, 1, Len(bits) - 1)) + bits[Len(bits)]

\* bits plus one
Increment(bits) ==
  LET zeros == { i \in DOMAIN bits : bits[i] = 0 }
  IN IF zeros = {}
       THEN << 1 >> \o [ i \in DOMAIN bits |-> 0 ]
       ELSE LET last == CHOOSE i \in zeros : \A j \in zeros : j <= i
            IN [ i \in DOMAIN bits |->
                   IF i < last THEN bits[i] ELSE IF i = last THEN 1 ELSE 0 ]

\* round to nearest, ties to even: bits is an exact significand of at least
\* MantDig bits with the leading one first, inexact is whether more non-zero
\* bits follow it; exp is the exponent of the leading bit
RoundFloat(bits, inexact, exp) ==
  LET kept == SubSeq(bits, 1, MantDig)
      rest == SubSeq(bits, MantDig + 1, Len(bits))
      guard == IF rest = << >> THEN 0 ELSE rest[1]
      sticky == inexact \/ \E i \in 2..Len(rest) : rest[i] = 1
      up == guard = 1 /\ (sticky \/ kept[MantDig] = 1)
      rounded == IF up THEN Increment(kept) ELSE kept
  IN IF Len(rounded) > MantDig
       THEN [ sig |-> SubSeq(rounded, 1, MantDig), exp |-> exp + 1 ]
       ELSE [ sig |-> rounded, exp |-> exp ]

\* the first n bits after the point of r / d, for 0 <= r < d
FractionBits(r, d, n) ==
  [ i \in 1..n |-> (2 * ((r * Pow2Mod(i - 1, d)) % d)) \div d ]

\* what is left of r after those n bits
FractionRest(r, d, n) == (r * Pow2Mod(n, d)) % d

\* the number of doublings that bring a up to at least b, for 0 < a <= b
RECURSIVE Doublings(_, _)
Doublings(a, b) == IF a >= b THEN 0 ELSE 1 + Doublings(2 * a, b)

\* a / b for ints 0 <= a <= b, 0 < b: true division
truediv(a, b) ==
  IF a = 0 THEN Float0
  ELSE LET k == Doublings(a, b)
           r == a * Pow2(k) - b
       IN RoundFloat(<< 1 >> \o FractionBits(r, b, MantDig),
                     FractionRest(r, b, MantDig) # 0, 0 - k)

\* the bits of sig * n + carry, the leading one first
RECURSIVE MulBits(_, _, _)
MulBits(sig, n, carry) ==
  IF sig = << >> THEN ToBits(carry)
  ELSE LET width == IF Len(sig) < Chunk THEN Len(sig) ELSE Chunk
           low == SubSeq(sig, Len(sig) - width + 1, Len(sig))
           v == FromBits(low) * n + carry
       IN MulBits(SubSeq(sig, 1, Len(sig) - width), n, v \div Pow2(width))
            \o FixedBits(v % Pow2(width), width)

\* x * n for a float x and an int n > 0 that a float holds exactly
mul(x, n) ==
  IF x.sig = << >> THEN Float0
  ELSE LET bits == MulBits(x.sig, n, 0)
       IN RoundFloat(bits, FALSE, x.exp + Len(bits) - MantDig)

\* int(x): truncation
int(x) ==
  IF x.sig = << >> \/ x.exp < 0 THEN 0 ELSE FromBits(SubSeq(x.sig, 1, x.exp + 1))

RECURSIVE SumSeq(_)
SumSeq(s) == IF s = << >> THEN 0 ELSE Head(s) + SumSeq(Tail(s))

\* int(completed / total * 100), computed once for the totals up to MaxTopics
PercentOf ==
  [ total \in 1..MaxTopics |->
      [ completed \in 0..total |-> int(mul(truediv(completed, total), 100)) ] ]
percent(completed, total) ==
  IF total \in DOMAIN PercentOf THEN PercentOf[total][completed]
  ELSE int(mul(truediv(completed, total), 100))

CountTopics(meta, P(_)) ==
  SumSeq([ i \in DOMAIN meta.modules |->
             Cardinality({ j \in DOMAIN meta.modules[i].topics :
                             P(meta.modules[i].topics[j]) }) ])

calculate_progress(course_slug) ==
  LET meta == get_course_meta(course_slug) IN
  IF meta = << >> THEN 0
  ELSE LET total == CountTopics(meta[1], LAMBDA t : TRUE)
           completed == CountTopics(meta[1], LAMBDA t : t.completed)
       IN IF total > 0 THEN percent(completed, total) ELSE 0

\* git_commit_push: what one call comes to.  A non-zero exit of git add, commit
\* or push raises CalledProcessError, which is caught (the call returns False);
\* a git that cannot be executed makes subprocess.run raise FileNotFoundError,
\* which is not caught.
GitOutcomes ==
  IF git = "installed" THEN { "committed", "nothing to commit", "push failed" }
  ELSE { "git not found" }
git_commit_push_raises(outcome) == outcome = "git not found"

(***************************************************************************)
(* The entities the handlers build.                                        *)
(***************************************************************************)
CourseSlug(code, name) == slugify(code \o << "-" >> \o name)

NewCourse(course_id, code, name, course_slug) ==
  [ id |-> course_id, code |-> code, name |-> name, slug |-> course_slug,
    progress |-> 0, modules |-> << >> ]

NewModule(module_id, title) ==
  [ id |-> module_id, title |-> title, slug |-> slugify(title),
    completed |-> FALSE, topics |-> << >> ]

NewTopic(topic_id, module_slug, title, priority, time) ==
  [ id |-> topic_id, title |-> title, slug |-> slugify(title),
    file |-> << module_slug, slugify(title) \o MdSuffix >>,
    completed |-> FALSE, priority |-> priority, time |-> time,
    locked |-> FALSE ]

\* f"{COURSES_DIR}/{course_slug}/{topic['file']}"
TopicFile(course_slug, topic) == Path(<< course_slug >> \o topic.file)

\* open(path, 'r').read() behind os.path.exists
ReadContent(path) == IF path \in DOMAIN files THEN files[path] ELSE << >>

(***************************************************************************)
(* The content root the program starts on.  init_repo creates index.json   *)
(* only if it is absent, so the program also starts on what an earlier run *)
(* left: here a root with one course, one module and one topic, and a root *)
(* where that course is the second of the index and the directory of the   *)
(* first holds no course.json.                                             *)
(***************************************************************************)
SeedCourse == [ code |-> << "A" >>, name |-> << "x" >> ]
SeedSlug == CourseSlug(SeedCourse.code, SeedCourse.name)
SeedTitle == << "T" >>
SeedTopic == NewTopic(1, slugify(SeedTitle), SeedTitle, "medium", DefaultTime)
SeedModule == [ NewModule(1, SeedTitle) EXCEPT !.topics = << SeedTopic >> ]
SeedMeta(course_id) ==
  [ NewCourse(course_id, SeedCourse.code, SeedCourse.name, SeedSlug)
      EXCEPT !.modules = << SeedModule >> ]

FreshRoot ==
  /\ dirs = {}
  /\ index = << >>
  /\ metas = NoFiles
  /\ files = NoFiles

SeededRoot ==
  /\ dirs = { << SeedSlug >>, << SeedSlug, SeedModule.slug >> }
  /\ index = << [ id |-> 1, slug |-> SeedSlug ] >>
  /\ metas = (SeedSlug :> SeedMeta(1))
  /\ files = (TopicFile(SeedSlug, SeedTopic) :> Template(SeedTitle))

LostCourse == [ code |-> << "B" >>, name |-> << "y" >> ]
LostSlug == CourseSlug(LostCourse.code, LostCourse.name)

MissingRecordRoot ==
  /\ dirs = { << SeedSlug >>, << SeedSlug, SeedModule.slug >>, << LostSlug >> }
  /\ index = << [ id |-> 1, slug |-> LostSlug ], [ id |-> 2, slug |-> SeedSlug ] >>
  /\ metas = (SeedSlug :> SeedMeta(2))
  /\ files = (TopicFile(SeedSlug, SeedTopic) :> Template(SeedTitle))

\* a root whose one course has total topics in two modules, the first
\* `completed` of them completed; the titles are "t00", "t01", ..., which are
\* their own slugs
SecondTitle == << "u" >>
DecimalChars == << "0", "1", "2", "3", "4", "5", "6", "7", "8", "9" >>
TopicTitle(n) == << "t", DecimalChars[(n \div 10) + 1], DecimalChars[(n % 10) + 1] >>
LargeTopic(topic_id, module_title, n, completed) ==
  [ id |-> topic_id, title |-> TopicTitle(n), slug |-> TopicTitle(n),
    file |-> << module_title, TopicTitle(n) \o MdSuffix >>,
    completed |-> (n <= completed), priority |-> "medium", time |-> DefaultTime,
    locked |-> FALSE ]
LargeMeta(total, completed) ==
  LET half == total \div 2
      one == [ NewModule(1, SeedModule.slug) EXCEPT
                 !.topics = [ i \in 1..half |->
                                LargeTopic(i, SeedModule.slug, i, completed) ] ]
      two == [ NewModule(2, SecondTitle) EXCEPT
                 !.topics = [ i \in 1..(total - half) |->
                                LargeTopic(i, SecondTitle, half + i, completed) ] ]
  IN [ NewCourse(1, SeedCourse.code, SeedCourse.name, SeedSlug)
         EXCEPT !.modules = << one, two >> ]
\* the content files: every topic has its template, but on the roots "edited"
\* and "lost" the second topic has been given new content, and on the root
\* "lost" the file of the first topic is gone
FirstFile == << SeedSlug, SeedModule.slug, TopicTitle(1) \o MdSuffix >>
SecondFile == << SeedSlug, SeedModule.slug, TopicTitle(2) \o MdSuffix >>
LargeRoots == { "whole", "edited", "lost" }
LargeFiles(total, root) ==
  LET module_of(n) == IF n <= total \div 2 THEN SeedModule.slug ELSE SecondTitle
      paths == { << SeedSlug, module_of(n), TopicTitle(n) \o MdSuffix >> :
                   n \in 1..total }
  IN [ path \in (IF root = "lost" THEN paths \ { FirstFile } ELSE paths) |->
         IF root # "whole" /\ path = SecondFile THEN NewContent
         ELSE Template(SubSeq(path[3], 1, Len(path[3]) - Len(MdSuffix))) ]
LargeRoot(total, completed, root) ==
  /\ dirs = { << SeedSlug >>, << SeedSlug, SeedModule.slug >>,
              << SeedSlug, SecondTitle >> }
  /\ index = << [ id |-> 1, slug |-> SeedSlug ] >>
  /\ metas = (SeedSlug :> LargeMeta(total, completed))
  /\ files = LargeFiles(total, root)

\* on a root without .git init_repo runs `git init`, and the program starts
\* only if that can be executed
init_repo ==
  \/ FreshRoot /\ git = "installed"
  \/ SeededRoot /\ git \in { "installed", "missing" }
  \/ MissingRecordRoot /\ git = "installed"

Init ==
  /\ init_repo
  /\ pc = [ p \in Workers |-> "idle" ]
  /\ req = [ p \in Workers |-> Req0 ]
  /\ loc = [ p \in Workers |-> Loc0 ]
  /\ resp = [ p \in Workers |-> Resp0 ]
  /\ started = 0

(***************************************************************************)
(* Steps shared by the handlers.                                           *)
(***************************************************************************)
\* a request goes to an idle worker; the workers are alike, and it goes to the
\* first idle one
Accept(p, request) ==
  /\ pc[p] = "idle"
  /\ p = FirstWorker \/ pc[FirstWorker] # "idle"
  /\ started < MaxRequests
  /\ started' = started + 1
  /\ req' = [ req EXCEPT ![p] = request ]
  /\ git' = git

\* the handler returns or raises: its local variables are gone (the model keeps
\* the messages it called git_commit_push with)
Finish(p, response, locals) ==
  /\ pc' = [ pc EXCEPT ![p] = "idle" ]
  /\ resp' = [ resp EXCEPT ![p] = response ]
  /\ loc' = [ loc EXCEPT ![p] = [ Loc0 EXCEPT !.commits = locals.commits ] ]

\* the handler goes on to its next call
Goto(p, label, locals) ==
  /\ pc' = [ pc EXCEPT ![p] = label ]
  /\ resp' = [ resp EXCEPT ![p] = Resp0 ]
  /\ loc' = [ loc EXCEPT ![p] = locals ]

\* git_commit_push(message) as the last call before `return entity`
CommitAndReturn(p, message, entity) ==
  \E outcome \in GitOutcomes :
    LET locals == [ loc[p] EXCEPT !.commits = Append(@, message) ] IN
    IF git_commit_push_raises(outcome)
      THEN Finish(p, Unhandled("FileNotFoundError: git"), locals)
      ELSE Finish(p, Ok(entity), locals)

(***************************************************************************)
(* POST /courses                                                           *)
(***************************************************************************)
\* create_course testing the directory of the unslugged name
create_course_check_unslugged(p, course) ==
  /\ Accept(p, [ Req0 EXCEPT !.op = "create_course", !.code = course.code,
                             !.name = course.name ])
  /\ LET course_slug == CourseSlug(course.code, course.name) IN
     IF Path(<< course.code \o << "-" >> \o course.name >>) \in dirs
       THEN Finish(p, HTTPException(400, "Course already exists"), Loc0)
       ELSE Goto(p, "create_course_makedirs", [ Loc0 EXCEPT !.slug = course_slug ])
  /\ UNCHANGED disk

create_course_check(p, course) ==
  /\ Accept(p, [ Req0 EXCEPT !.op = "create_course", !.code = course.code,
                             !.name = course.name ])
  /\ LET course_slug == CourseSlug(course.code, course.name) IN
     IF Path(<< course_slug >>) \in dirs
       THEN Finish(p, HTTPException(400, "Course already exists"), Loc0)
       ELSE Goto(p, "create_course_makedirs", [ Loc0 EXCEPT !.slug = course_slug ])
  /\ UNCHANGED disk

create_course_makedirs(p) ==
  /\ pc[p] = "create_course_makedirs"
  /\ dirs' = makedirs(<< loc[p].slug >>)
  /\ Goto(p, "create_course_id", loc[p])
  /\ UNCHANGED << index, metas, files, req, started, git >>

create_course_id(p) ==
  /\ pc[p] = "create_course_id"
  /\ Goto(p, "create_course_save_meta", [ loc[p] EXCEPT !.course_id = Len(index) + 1 ])
  /\ UNCHANGED << disk, req, started, git >>

create_course_save_meta(p) ==
  /\ pc[p] = "create_course_save_meta"
  /\ LET meta == NewCourse(loc[p].course_id, req[p].code, req[p].name, loc[p].slug) IN
       /\ dirs' = save_course_meta_dirs(loc[p].slug)
       /\ metas' = save_course_meta(loc[p].slug, meta)
       /\ Goto(p, "create_course_load_index", [ loc[p] EXCEPT !.meta = << meta >> ])
  /\ UNCHANGED << index, files, req, started, git >>

create_course_load_index(p) ==
  /\ pc[p] = "create_course_load_index"
  /\ Goto(p, "create_course_save_index", [ loc[p] EXCEPT !.index = index ])
  /\ UNCHANGED << disk, req, started, git >>

create_course_save_index(p) ==
  /\ pc[p] = "create_course_save_index"
  /\ index' = Append(loc[p].index, [ id |-> loc[p].course_id, slug |-> loc[p].slug ])
  /\ Goto(p, "create_course_commit", loc[p])
  /\ UNCHANGED << dirs, metas, files, req, started, git >>

create_course_commit(p) ==
  /\ pc[p] = "create_course_commit"
  /\ CommitAndReturn(p, << "Create course: ", req[p].code, " - ", req[p].name >>,
                     loc[p].meta[1])
  /\ UNCHANGED << disk, req, started, git >>

create_course(p) ==
  \/ \E course \in CourseCreate : create_course_check(p, course)
  \/ create_course_makedirs(p)
  \/ create_course_id(p)
  \/ create_course_save_meta(p)
  \/ create_course_load_index(p)
  \/ create_course_save_index(p)
  \/ create_course_commit(p)

(***************************************************************************)
(* The lookup every by-id handler starts with: load_index() and the first  *)
(* course_ref with the id.                                                 *)
(***************************************************************************)
FindCourse(p, label) ==
  LET course_ref == FirstWithId(index, req'[p].course_id) IN
  IF course_ref = 0
    THEN Finish(p, HTTPException(404, "Course not found"), Loc0)
    ELSE Goto(p, label, [ Loc0 EXCEPT !.slug = index[course_ref].slug ])

(***************************************************************************)
(* POST /courses/{course_id}/modules                                       *)
(***************************************************************************)
create_module_find(p, course_id, module) ==
  /\ Accept(p, [ Req0 EXCEPT !.op = "create_module", !.course_id = course_id,
                             !.title = module.title ])
  /\ FindCourse(p, "create_module_makedirs")
  /\ UNCHANGED disk

create_module_makedirs(p) ==
  /\ pc[p] = "create_module_makedirs"
  /\ dirs' = makedirs(<< loc[p].slug, slugify(req[p].title) >>)
  /\ Goto(p, "create_module_save_meta",
          [ loc[p] EXCEPT !.meta = get_course_meta(loc[p].slug) ])
  /\ UNCHANGED << index, metas, files, req, started, git >>

create_module_save_meta(p) ==
  /\ pc[p] = "create_module_save_meta"
  /\ IF loc[p].meta = << >>
       THEN \* meta is None: meta.get raises
            /\ Finish(p, Unhandled("AttributeError"), loc[p])
            /\ UNCHANGED << dirs, metas >>
       ELSE LET meta == loc[p].meta[1]
                new_module == NewModule(Len(meta.modules) + 1, req[p].title)
                saved == [ meta EXCEPT !.modules = Append(@, new_module) ]
            IN /\ dirs' = save_course_meta_dirs(loc[p].slug)
               /\ metas' = save_course_meta(loc[p].slug, saved)
               /\ Goto(p, "create_module_commit",
                       [ loc[p] EXCEPT !.meta = << saved >>,
                                       !.module = Len(saved.modules) ])
  /\ UNCHANGED << index, files, req, started, git >>

create_module_commit(p) ==
  /\ pc[p] = "create_module_commit"
  /\ CommitAndReturn(p, << "Add module: ", req[p].title >>,
                     loc[p].meta[1].modules[loc[p].module])
  /\ UNCHANGED << disk, req, started, git >>

create_module(p) ==
  \/ \E course_id \in CourseIds, module \in ModuleCreate :
       create_module_find(p, course_id, module)
  \/ create_module_makedirs(p)
  \/ create_module_save_meta(p)
  \/ create_module_commit(p)

(***************************************************************************)
(* The lookup of the module, and of the topic, in the loaded course.json.  *)
(* want_topic: the handler looks the topic up too.                         *)
(***************************************************************************)
\* the lookup blaming the course for a module that is missing
FindModuleTopic_blames_course(p, want_topic, label) ==
  LET meta == get_course_meta(loc[p].slug) IN
  IF meta = << >>
    THEN Finish(p, Unhandled("TypeError"), loc[p])
    ELSE LET module == FirstWithId(meta[1].modules, req[p].module_id) IN
         IF module = 0
           THEN Finish(p, HTTPException(404, "Course not found"), loc[p])
           ELSE LET topic == FirstWithId(meta[1].modules[module].topics,
                                         req[p].topic_id)
                IN IF want_topic /\ topic = 0
                     THEN Finish(p, HTTPException(404, "Topic not found"), loc[p])
                     ELSE Goto(p, label,
                               [ loc[p] EXCEPT !.meta = meta, !.module = module,
                                               !.topic = topic ])

FindModuleTopic(p, want_topic, label) ==
  LET meta == get_course_meta(loc[p].slug) IN
  IF meta = << >>
    THEN \* meta is None: meta["modules"] raises
         Finish(p, Unhandled("TypeError"), loc[p])
    ELSE LET module == FirstWithId(meta[1].modules, req[p].module_id) IN
         IF module = 0
           THEN Finish(p, HTTPException(404, "Module not found"), loc[p])
           ELSE LET topic == FirstWithId(meta[1].modules[module].topics,
                                         req[p].topic_id)
                IN IF want_topic /\ topic = 0
                     THEN Finish(p, HTTPException(404, "Topic not found"), loc[p])
                     ELSE Goto(p, label,
                               [ loc[p] EXCEPT !.meta = meta, !.module = module,
                                               !.topic = topic ])

\* open(topic_file, 'w') needs the directory of the file
CanOpenForWriting(path) ==
  Len(path) > 0 /\ (Len(path) = 1 \/ SubSeq(path, 1, Len(path) - 1) \in dirs)

(***************************************************************************)
(* POST /courses/{course_id}/modules/{module_id}/topics                    *)
(***************************************************************************)
create_topic_find(p, course_id, module_id, topic) ==
  /\ Accept(p, [ Req0 EXCEPT !.op = "create_topic", !.course_id = course_id,
                             !.module_id = module_id, !.title = topic.title,
                             !.priority = topic.priority, !.time = topic.time ])
  /\ FindCourse(p, "create_topic_load_meta")
  /\ UNCHANGED disk

create_topic_load_meta(p) ==
  /\ pc[p] = "create_topic_load_meta"
  /\ FindModuleTopic(p, FALSE, "create_topic_write")
  /\ UNCHANGED << disk, req, started, git >>

create_topic_write(p) ==
  /\ pc[p] = "create_topic_write"
  /\ LET module == loc[p].meta[1].modules[loc[p].module]
         topic_file == Path(<< loc[p].slug, module.slug,
                               slugify(req[p].title) \o MdSuffix >>)
     IN IF CanOpenForWriting(topic_file)
          THEN /\ files' = (topic_file :> Template(req[p].title)) @@ files
               /\ Goto(p, "create_topic_save_meta", loc[p])
          ELSE /\ Finish(p, Unhandled("FileNotFoundError"), loc[p])
               /\ UNCHANGED files
  /\ UNCHANGED << dirs, index, metas, req, started, git >>

\* create_topic appending to the course.json as it is when it saves
create_topic_save_meta_rereading(p) ==
  /\ pc[p] = "create_topic_save_meta"
  /\ LET meta == loc[p].meta[1]
         m == loc[p].module
         new_topic == NewTopic(Len(meta.modules[m].topics) + 1, meta.modules[m].slug,
                               req[p].title, req[p].priority, req[p].time)
         saved == [ metas[loc[p].slug] EXCEPT
                      !.modules[m].topics = Append(@, new_topic) ]
     IN /\ dirs' = save_course_meta_dirs(loc[p].slug)
        /\ metas' = save_course_meta(loc[p].slug, saved)
        /\ Goto(p, "create_topic_commit",
                [ loc[p] EXCEPT !.meta = << saved >>,
                                !.topic = Len(saved.modules[m].topics) ])
  /\ UNCHANGED << index, files, req, started, git >>

create_topic_save_meta(p) ==
  /\ pc[p] = "create_topic_save_meta"
  /\ LET meta == loc[p].meta[1]
         m == loc[p].module
         new_topic == NewTopic(Len(meta.modules[m].topics) + 1, meta.modules[m].slug,
                               req[p].title, req[p].priority, req[p].time)
         saved == [ meta EXCEPT !.modules[m].topics = Append(@, new_topic) ]
     IN /\ dirs' = save_course_meta_dirs(loc[p].slug)
        /\ metas' = save_course_meta(loc[p].slug, saved)
        /\ Goto(p, "create_topic_commit",
                [ loc[p] EXCEPT !.meta = << saved >>,
                                !.topic = Len(saved.modules[m].topics) ])
  /\ UNCHANGED << index, files, req, started, git >>

create_topic_commit(p) ==
  /\ pc[p] = "create_topic_commit"
  /\ CommitAndReturn(p, << "Add topic: ", req[p].title >>,
                     loc[p].meta[1].modules[loc[p].module].topics[loc[p].topic])
  /\ UNCHANGED << disk, req, started, git >>

create_topic(p) ==
  \/ \E ref \in ModuleRefs, topic \in TopicCreate :
       create_topic_find(p, ref[1], ref[2], topic)
  \/ create_topic_load_meta(p)
  \/ create_topic_write(p)
  \/ create_topic_save_meta(p)
  \/ create_topic_commit(p)

(***************************************************************************)
(* PATCH /courses/{course_id}/modules/{module_id}/topics/{topic_id}        *)
(***************************************************************************)
\* {**topic, "content": content}
WithContent(topic, content) ==
  [ id |-> topic.id, title |-> topic.title, slug |-> topic.slug,
    file |-> topic.file, completed |-> topic.completed,
    priority |-> topic.priority, time |-> topic.time, locked |-> topic.locked,
    content |-> content ]

LocTopic(p) == loc[p].meta[1].modules[loc[p].module].topics[loc[p].topic]

update_topic_find(p, course_id, module_id, topic_id, updates) ==
  /\ Accept(p, [ Req0 EXCEPT !.op = "update_topic", !.course_id = course_id,
                             !.module_id = module_id, !.topic_id = topic_id,
                             !.has_content = updates.has_content,
                             !.content = updates.content,
                             !.has_completed = updates.has_completed,
                             !.completed = updates.completed ])
  /\ FindCourse(p, "update_topic_load_meta")
  /\ UNCHANGED disk

\* update_topic writing the content whether or not it was supplied
update_topic_load_meta_always_writes(p) ==
  /\ pc[p] = "update_topic_load_meta"
  /\ FindModuleTopic(p, TRUE, "update_topic_write")
  /\ UNCHANGED << disk, req, started, git >>

update_topic_load_meta(p) ==
  /\ pc[p] = "update_topic_load_meta"
  /\ FindModuleTopic(p, TRUE,
                     IF req[p].has_content THEN "update_topic_write"
                     ELSE IF req[p].has_completed THEN "update_topic_save_meta"
                     ELSE "update_topic_read")
  /\ UNCHANGED << disk, req, started, git >>

update_topic_write(p) ==
  /\ pc[p] = "update_topic_write"
  /\ LET topic_file == TopicFile(loc[p].slug, LocTopic(p)) IN
     IF CanOpenForWriting(topic_file)
       THEN /\ files' = (topic_file :> req[p].content) @@ files
            /\ Goto(p, "update_topic_commit_content", loc[p])
       ELSE /\ Finish(p, Unhandled("FileNotFoundError"), loc[p])
            /\ UNCHANGED files
  /\ UNCHANGED << dirs, index, metas, req, started, git >>

update_topic_commit_content(p) ==
  /\ pc[p] = "update_topic_commit_content"
  /\ \E outcome \in GitOutcomes :
       LET locals == [ loc[p] EXCEPT
                         !.commits = Append(@, << "Update topic: ", LocTopic(p).title >>) ]
       IN IF git_commit_push_raises(outcome)
            THEN Finish(p, Unhandled("FileNotFoundError: git"), locals)
            ELSE Goto(p, IF req[p].has_completed THEN "update_topic_save_meta"
                         ELSE "update_topic_read", locals)
  /\ UNCHANGED << disk, req, started, git >>

update_topic_save_meta(p) ==
  /\ pc[p] = "update_topic_save_meta"
  /\ LET meta == loc[p].meta[1]
         saved == [ meta EXCEPT
                      !.modules[loc[p].module].topics[loc[p].topic].completed =
                        req[p].completed ]
     IN /\ dirs' = save_course_meta_dirs(loc[p].slug)
        /\ metas' = save_course_meta(loc[p].slug, saved)
        /\ Goto(p, "update_topic_commit_completed", [ loc[p] EXCEPT !.meta = << saved >> ])
  /\ UNCHANGED << index, files, req, started, git >>

update_topic_commit_completed(p) ==
  /\ pc[p] = "update_topic_commit_completed"
  /\ \E outcome \in GitOutcomes :
       LET locals == [ loc[p] EXCEPT
                         !.commits = Append(@,
                           << IF req[p].completed THEN "Mark complete: "
                              ELSE "Mark incomplete: ", LocTopic(p).title >>) ]
       IN IF git_commit_push_raises(outcome)
            THEN Finish(p, Unhandled("FileNotFoundError: git"), locals)
            ELSE Goto(p, "update_topic_read", locals)
  /\ UNCHANGED << disk, req, started, git >>

update_topic_read(p) ==
  /\ pc[p] = "update_topic_read"
  /\ Finish(p, Ok(WithContent(LocTopic(p),
                              ReadContent(TopicFile(loc[p].slug, LocTopic(p))))),
            loc[p])
  /\ UNCHANGED << disk, req, started, git >>

update_topic(p) ==
  \/ \E ref \in TopicRefs, updates \in TopicUpdate :
       update_topic_find(p, ref[1], ref[2], ref[3], updates)
  \/ update_topic_load_meta(p)
  \/ update_topic_write(p)
  \/ update_topic_commit_content(p)
  \/ update_topic_save_meta(p)
  \/ update_topic_commit_completed(p)
  \/ update_topic_read(p)

(***************************************************************************)
(* The read-only handlers.                                                 *)
(***************************************************************************)
WithProgress(meta, progress) == [ meta EXCEPT !.progress = progress ]

\* get_courses giving up at the first course_ref without course.json
RECURSIVE ListedFrom_stops_at_missing(_)
ListedFrom_stops_at_missing(i) ==
  IF i > Len(index) THEN << >>
  ELSE LET course_slug == index[i].slug
           meta == get_course_meta(course_slug)
       IN IF meta # << >>
            THEN << WithProgress(meta[1], calculate_progress(course_slug)) >>
                   \o ListedFrom_stops_at_missing(i + 1)
            ELSE << >>

\* the loop of get_courses over the course_refs from place i on
RECURSIVE ListedFrom(_)
ListedFrom(i) ==
  IF i > Len(index) THEN << >>
  ELSE LET course_slug == index[i].slug
           meta == get_course_meta(course_slug)
       IN (IF meta # << >>
             THEN << WithProgress(meta[1], calculate_progress(course_slug)) >>
             ELSE << >>) \o ListedFrom(i + 1)

\* what GET /courses returns
ListCourses == ListedFrom(1)

\* get_courses dropping the index entries whose course.json is missing
get_courses_pruning(p) ==
  /\ Accept(p, [ Req0 EXCEPT !.op = "get_courses" ])
  /\ Finish(p, OkList(ListCourses), Loc0)
  /\ index' = SelectSeq(index, LAMBDA course_ref : course_ref.slug \in DOMAIN metas)
  /\ UNCHANGED << dirs, metas, files >>

get_courses(p) ==
  /\ Accept(p, [ Req0 EXCEPT !.op = "get_courses" ])
  /\ Finish(p, OkList(ListCourses), Loc0)
  /\ UNCHANGED disk

\* what GET /courses/{course_id} answers
GetCourse(course_id) ==
  LET course_ref == FirstWithId(index, course_id) IN
  IF course_ref = 0 THEN HTTPException(404, "Course not found")
  ELSE LET course_slug == index[course_ref].slug
           meta == get_course_meta(course_slug)
       IN IF meta = << >> THEN HTTPException(404, "Course metadata not found")
          ELSE Ok(WithProgress(meta[1], calculate_progress(course_slug)))

get_course(p) ==
  \E course_id \in CourseIds :
    /\ Accept(p, [ Req0 EXCEPT !.op = "get_course", !.course_id = course_id ])
    /\ Finish(p, GetCourse(course_id), Loc0)
    /\ UNCHANGED disk

\* what GET /courses/{course_id}/modules/{module_id}/topics/{topic_id} answers
GetTopic(course_id, module_id, topic_id) ==
  LET course_ref == FirstWithId(index, course_id) IN
  IF course_ref = 0 THEN HTTPException(404, "Course not found")
  ELSE LET course_slug == index[course_ref].slug
           meta == get_course_meta(course_slug)
       IN IF meta = << >> THEN Unhandled("TypeError")
          ELSE LET module == FirstWithId(meta[1].modules, module_id) IN
               IF module = 0 THEN HTTPException(404, "Module not found")
               ELSE LET topics == meta[1].modules[module].topics
                        topic == FirstWithId(topics, topic_id)
                    IN IF topic = 0 THEN HTTPException(404, "Topic not found")
                       ELSE Ok(WithContent(topics[topic],
                                 ReadContent(TopicFile(course_slug, topics[topic]))))

get_topic(p) ==
  \E ref \in TopicRefs :
    /\ Accept(p, [ Req0 EXCEPT !.op = "get_topic", !.course_id = ref[1],
                               !.module_id = ref[2], !.topic_id = ref[3] ])
    /\ Finish(p, GetTopic(ref[1], ref[2], ref[3]), Loc0)
    /\ UNCHANGED disk

(***************************************************************************)
(* GET /search                                                             *)
(***************************************************************************)
\* results[:20]
SearchLimit == 20

Queries == { << "T" >>, << "n", "e", "w" >>, << >> }

\* sub in s, of str
substring_in(sub, s) ==
  \E i \in 1..(Len(s) - Len(sub) + 1) : SubSeq(s, i, i + Len(sub) - 1) = sub

\* the results; a key a result does not have is 0
CourseResult(meta) ==
  [ type |-> "course", course_id |-> meta.id, module_id |-> 0, topic_id |-> 0,
    title |-> meta.code \o << " ", "-", " " >> \o meta.name ]

ModuleResult(meta, module) ==
  [ type |-> "module", course_id |-> meta.id, module_id |-> module.id,
    topic_id |-> 0, title |-> meta.code \o << " ", ">", " " >> \o module.title ]

TopicResult(meta, module, topic) ==
  [ type |-> "topic", course_id |-> meta.id, module_id |-> module.id,
    topic_id |-> topic.id,
    title |-> meta.code \o << " ", ">", " " >> \o module.title
                \o << " ", ">", " " >> \o topic.title ]

\* the loop over the topics of a module, looking at the titles only
SearchTopics_by_title(course_slug, meta, module, q_lower) ==
  LET found(topic) == substring_in(q_lower, lower(topic.title))
      hits == SelectSeq(module.topics, found)
  IN [ i \in DOMAIN hits |-> TopicResult(meta, module, hits[i]) ]

\* the loop over the topics of a module
SearchTopics(course_slug, meta, module, q_lower) ==
  LET found(topic) ==
        /\ substring_in(q_lower, lower(topic.title))
        /\ TopicFile(course_slug, topic) \in DOMAIN files
        /\ substring_in(q_lower, lower(files[TopicFile(course_slug, topic)]))
      hits == SelectSeq(module.topics, found)
  IN [ i \in DOMAIN hits |-> TopicResult(meta, module, hits[i]) ]

\* the loop over the modules of a course, from place i on
RECURSIVE SearchModules(_, _, _, _)
SearchModules(course_slug, meta, q_lower, i) ==
  IF i > Len(meta.modules) THEN << >>
  ELSE LET module == meta.modules[i]
       IN (IF substring_in(q_lower, lower(module.title))
             THEN << ModuleResult(meta, module) >> ELSE << >>)
          \o SearchTopics(course_slug, meta, module, q_lower)
          \o SearchModules(course_slug, meta, q_lower, i + 1)

\* the loop over the course_refs, from place i on
RECURSIVE SearchCourses(_, _)
SearchCourses(q_lower, i) ==
  IF i > Len(index) THEN << >>
  ELSE LET course_slug == index[i].slug
           meta == get_course_meta(course_slug)
       IN (IF meta = << >> THEN << >>
           ELSE (IF \/ substring_in(q_lower, lower(meta[1].code))
                    \/ substring_in(q_lower, lower(meta[1].name))
                   THEN << CourseResult(meta[1]) >> ELSE << >>)
                \o SearchModules(course_slug, meta[1], q_lower, 1))
          \o SearchCourses(q_lower, i + 1)

\* search returning every result
Search_untruncated(q) == SearchCourses(lower(q), 1)

\* what GET /search?q= returns
Search(q) ==
  LET results == SearchCourses(lower(q), 1)
  IN SubSeq(results, 1, IF Len(results) < SearchLimit THEN Len(results)
                        ELSE SearchLimit)

search(p) ==
  \E q \in Queries :
    /\ Accept(p, [ Req0 EXCEPT !.op = "search", !.q = q ])
    /\ Finish(p, OkList(Search(q)), Loc0)
    /\ UNCHANGED disk

(***************************************************************************)
(* A worker that stops between two calls of a handler (the process is      *)
(* killed, or a file-system call raises): what it has written stays.       *)
(***************************************************************************)
\* no response is sent; `detail` keeps the call the worker stopped before
Stopped(label) == [ status |-> 0, detail |-> label, body |-> << >> ]

crash(p) ==
  /\ pc[p] # "idle"
  /\ Finish(p, Stopped(pc[p]), Loc0)
  /\ UNCHANGED << disk, req, started, git >>

\* the program serving requests
Next ==
  \E p \in Workers :
    \/ create_course(p)
    \/ create_module(p)
    \/ create_topic(p)
    \/ update_topic(p)
    \/ get_courses(p)
    \/ get_course(p)
    \/ get_topic(p)
    \/ search(p)

Spec == Init /\ [][Next]_vars

\* the program serving requests, with workers that may stop
CrashNext == Next \/ \E p \in Workers : crash(p)

CrashSpec == Init /\ [][CrashNext]_vars

\* the program reading a course of many topics
LargeInit ==
  /\ \E total \in 0..MaxTopics : \E completed \in 0..total :
       \E root \in LargeRoots :
         /\ root = "whole" \/ completed = 0
         /\ LargeRoot(total, completed, root)
  /\ git = "installed"
  /\ pc = [ p \in Workers |-> "idle" ]
  /\ req = [ p \in Workers |-> Req0 ]
  /\ loc = [ p \in Workers |-> Loc0 ]
  /\ resp = [ p \in Workers |-> Resp0 ]
  /\ started = 0

ReadNext == \E p \in Workers : get_courses(p) \/ get_course(p) \/ search(p)

ReadSpec == LargeInit /\ [][ReadNext]_vars

\* slugify applied to a text, and again to what it returned: an upper-case
\* and a lower-case letter, whitespace, the hyphen, the underscore and
\* punctuation make up the texts
SlugChars == { "A", "b", " ", "-", "_", "!" }
Texts == UNION { [ 1..n -> SlugChars ] : n \in 0..MaxLen }

SlugInit ==
  /\ FreshRoot
  /\ git = "installed"
  /\ pc = [ p \in Workers |-> "idle" ]
  /\ \E text \in Texts :
       req = [ p \in Workers |->
                IF p = FirstWorker THEN [ Req0 EXCEPT !.title = text ] ELSE Req0 ]
  /\ loc = [ p \in Workers |-> Loc0 ]
  /\ resp = [ p \in Workers |-> Resp0 ]
  /\ started = 0

slugify_call(p) ==
  /\ started = 0
  /\ started' = 1
  /\ loc' = [ loc EXCEPT ![p].slug = slugify(req[p].title) ]
  /\ UNCHANGED << disk, pc, req, resp, git >>

slugify_again(p) ==
  /\ started = 1
  /\ started' = 2
  /\ loc' = [ loc EXCEPT ![p].slug = slugify(loc[p].slug) ]
  /\ UNCHANGED << disk, pc, req, resp, git >>

SlugNext == slugify_call(FirstWorker) \/ slugify_again(FirstWorker)

SlugSpec == SlugInit /\ [][SlugNext]_vars

(***************************************************************************)
(* Properties.                                                             *)
(***************************************************************************)
IndexUnique ==
  \A i, j \in DOMAIN index :
    i # j => index[i].id # index[j].id /\ index[i].slug # index[j].slug

IndexIdsKept ==
  \A e \in Range(index), f \in Range(index') : e.slug = f.slug => e.id = f.id

\* C1: in every reachable state no two index entries have the same id, no two
\* have the same slug, and the id of an entry that is in the index never changes.
C1_IndexIdsAndSlugsUnique == [](IndexUnique) /\ [][IndexIdsKept]_vars

\* a course.json with this code and name exists
CourseRecorded(code, name) ==
  \E course_slug \in DOMAIN metas :
    metas[course_slug].code = code /\ metas[course_slug].name = name

\* C2: a createCourse(code, name) issued when a course with that code and name
\* exists answers 400 "Course already exists", changes no directory, index,
\* course.json or content file, and calls git_commit_push not once.
C2_DuplicateCourseRejected ==
  [][ \A p \in Workers, course \in CourseCreate :
        (create_course_check(p, course) /\ CourseRecorded(course.code, course.name))
          => /\ resp'[p] = HTTPException(400, "Course already exists")
             /\ pc'[p] = "idle"
             /\ loc'[p].commits = << >>
             /\ disk' = disk ]_vars

C2_Witness ==
  \E p \in Workers :
    /\ req[p].op = "create_course"
    /\ pc[p] = "idle"
    /\ resp[p].status = 400
    /\ CourseRecorded(req[p].code, req[p].name)

\* the entries of a listing with this code and name
Listed(listing, code, name) ==
  { i \in DOMAIN listing : listing[i].code = code /\ listing[i].name = name }

\* C3: after a createCourse(code, name) that succeeds, listCourses() returns
\* exactly one entry with that code and name, and its progress is 0.
C3_CreatedCourseListedOnce ==
  [][ \A p \in Workers :
        (create_course_commit(p) /\ resp'[p].status = 200)
          => LET listing == ListCourses'
                 mine == Listed(listing, req[p].code, req[p].name)
             IN /\ Cardinality(mine) = 1
                /\ \A i \in mine : listing[i].progress = 0 ]_vars

\* C4: updateTopic with only `completed` supplied leaves the content files as
\* they are, and updateTopic with only `content` supplied leaves every
\* course.json (and so the topic's `completed`) as it is.
C4_UpdateTouchesOnlyWhatIsSupplied ==
  [][ \A p \in Workers :
        update_topic(p)
          => /\ (req'[p].has_completed /\ ~req'[p].has_content) => files' = files
             /\ (req'[p].has_content /\ ~req'[p].has_completed) => metas' = metas ]_vars

\* one worker has toggled a topic without content, the other has written
\* content without a flag
C4_Witness ==
  \E p, q \in Workers :
    /\ req[p].op = "update_topic" /\ resp[p].status = 200
    /\ req[p].has_completed /\ ~req[p].has_content
    /\ resp[p].body[1].completed = req[p].completed
    /\ req[q].op = "update_topic" /\ resp[q].status = 200
    /\ req[q].has_content /\ ~req[q].has_completed
    /\ resp[q].body[1].content = req[q].content

\* the levels of a lookup
CourseAbsent(course_id) == \A i \in DOMAIN index : index[i].id # course_id

ModuleAbsent(meta, module_id) ==
  \A m \in DOMAIN meta.modules : meta.modules[m].id # module_id

TopicAbsent(meta, module_id, topic_id) ==
  \A m \in DOMAIN meta.modules :
    meta.modules[m].id = module_id
      => \A t \in DOMAIN meta.modules[m].topics :
           meta.modules[m].topics[t].id # topic_id

\* the course.json files of the index entries with this id, if each has one
RecordsOf(course_id) ==
  { metas[index[i].slug] : i \in { j \in DOMAIN index : index[j].id = course_id } }

AllRecorded(course_id) ==
  \A i \in DOMAIN index : index[i].id = course_id => index[i].slug \in DOMAIN metas

NotFound(level) == HTTPException(404, level \o " not found")

\* the answer the claim gives a lookup of (course_id, module_id, topic_id) in
\* the course.json files `records`; "" where it gives none
MissingLevel(records, module_id, topic_id, want_topic) ==
  IF \A meta \in records : ModuleAbsent(meta, module_id) THEN "Module"
  ELSE IF want_topic /\ (\A meta \in records : ~ModuleAbsent(meta, module_id))
                     /\ (\A meta \in records : TopicAbsent(meta, module_id, topic_id))
    THEN "Topic"
  ELSE ""

CommitStep(p) ==
  \/ create_course_commit(p)
  \/ create_module_commit(p)
  \/ create_topic_commit(p)
  \/ update_topic_commit_content(p)
  \/ update_topic_commit_completed(p)

\* C6: whatever goes wrong in git_commit_push (nothing to commit, a failed push,
\* no git to run) stays inside it: the call changes nothing that was written,
\* the handler goes on to its next step, and it ends with 200 and the entity.
C6_LedgerFailureAbsorbed ==
  [][ \A p \in Workers :
        CommitStep(p)
          => /\ disk' = disk
             /\ resp'[p].status # 500
             /\ pc[p] = "update_topic_commit_content"
                  => pc'[p] = IF req[p].has_completed THEN "update_topic_save_meta"
                              ELSE "update_topic_read"
             /\ pc[p] = "update_topic_commit_completed" => pc'[p] = "update_topic_read"
             /\ pc[p] \notin { "update_topic_commit_content",
                               "update_topic_commit_completed" }
                  => resp'[p].status = 200 /\ Len(resp'[p].body) = 1 ]_vars

\* the first words of the messages a finished request is to have committed with
CommitsDue(p) ==
  CASE req[p].op = "create_course" -> << "Create course: " >>
    [] req[p].op = "create_module" -> << "Add module: " >>
    [] req[p].op = "create_topic" -> << "Add topic: " >>
    [] req[p].op = "update_topic" ->
         (IF req[p].has_content THEN << "Update topic: " >> ELSE << >>)
         \o (IF req[p].has_completed
               THEN << IF req[p].completed THEN "Mark complete: "
                       ELSE "Mark incomplete: " >>
               ELSE << >>)
    [] OTHER -> << >>

CommitsMade(p) == [ i \in DOMAIN loc[p].commits |-> loc[p].commits[i][1] ]

\* the request of p is over and got through its lookups
Mutated(p) ==
  /\ pc[p] = "idle"
  /\ req[p].op \in { "create_course", "create_module", "create_topic", "update_topic" }
  /\ resp[p].status = 200 \/ resp[p].detail = "FileNotFoundError: git"

Rejected(p) == pc[p] = "idle" /\ resp[p].status \in { 400, 404 }

\* C7: git_commit_push is called once per mutation: once by a createCourse,
\* createModule or createTopic, by an updateTopic once per supplied field, for
\* the content first and for the flag second, each with its message, and not
\* at all by a request answered NotFound or AlreadyExists.
C7_OneCommitPerMutation ==
  \A p \in Workers :
    /\ Mutated(p) => CommitsMade(p) = CommitsDue(p)
    /\ Rejected(p) => loc[p].commits = << >>

\* the slugs of the index entries that have a course.json, in index order
RecordedSlugs ==
  LET refs == SelectSeq(index, LAMBDA e : e.slug \in DOMAIN metas)
  IN [ i \in DOMAIN refs |-> refs[i].slug ]

\* C8: for an index entry without course.json, getCourse answers 404 and
\* listCourses leaves that course out and returns every other one; neither fails
\* with an unhandled exception.
C8_MissingRecordTolerated ==
  [][ \A p \in Workers :
        /\ get_course(p)
             => LET course_ref == FirstWithId(index, req'[p].course_id) IN
                (course_ref # 0 /\ index[course_ref].slug \notin DOMAIN metas)
                  => resp'[p].status = 404
        /\ get_courses(p)
             => /\ resp'[p].status = 200
                /\ [ i \in DOMAIN resp'[p].body |-> resp'[p].body[i].slug ]
                     = RecordedSlugs ]_vars

\* a listing of one course out of an index of two, the first without
\* course.json, and a getCourse of that first one answered 404
C8_Witness ==
  \E p, q \in Workers :
    /\ Len(index) = 2
    /\ index[1].slug \notin DOMAIN metas
    /\ index[2].slug \in DOMAIN metas
    /\ req[p].op = "get_courses" /\ resp[p].status = 200
    /\ Len(resp[p].body) = 1 /\ resp[p].body[1].slug = index[2].slug
    /\ GetCourse(index[1].id) = HTTPException(404, "Course metadata not found")

\* the topics of a course.json, by place
TopicsOf(meta) ==
  UNION { { << m, t >> : t \in DOMAIN meta.modules[m].topics } :
          m \in DOMAIN meta.modules }

TopicAt(meta, mt) == meta.modules[mt[1]].topics[mt[2]]

\* C9: every topic has its content file, and no two topics of a course resolve
\* to the same file.
C9_EveryTopicOwnsItsFile ==
  \A course_slug \in DOMAIN metas :
    LET meta == metas[course_slug] IN
    \A a, b \in TopicsOf(meta) :
      /\ TopicFile(course_slug, TopicAt(meta, a)) \in DOMAIN files
      /\ a # b => TopicFile(course_slug, TopicAt(meta, a))
                    # TopicFile(course_slug, TopicAt(meta, b))

\* C10: the content of a topic is the template with the topic's title from its
\* creation on, until an updateTopic with content names that topic.
C10_TemplateUntilUpdated ==
  [][ /\ \A p \in Workers :
           create_topic_save_meta(p)
             => LET meta == metas'[loc[p].slug]
                    topic == TopicAt(meta, << loc'[p].module, loc'[p].topic >>)
                IN ReadContent(TopicFile(loc[p].slug, topic)) = Template(topic.title)
      /\ \A course_slug \in DOMAIN metas :
           \A mt \in TopicsOf(metas[course_slug]) :
             LET topic == TopicAt(metas[course_slug], mt)
                 topic_file == TopicFile(course_slug, topic)
             IN ReadContent(topic_file) = Template(topic.title)
                  => \/ topic_file \in DOMAIN files'
                          /\ files'[topic_file] = Template(topic.title)
                     \/ \E p \in Workers :
                          /\ update_topic_write(p)
                          /\ loc[p].slug = course_slug
                          /\ << loc[p].module, loc[p].topic >> = mt ]_vars


\* what calculate_progress is to return for a course.json
Percentage(meta) ==
  LET total == CountTopics(meta, LAMBDA t : TRUE)
      completed == CountTopics(meta, LAMBDA t : t.completed)
  IN IF total = 0 THEN 0 ELSE (completed * 100) \div total

\* C11: the progress getCourse and listCourses return for a course is computed
\* from the topic flags of its course.json: floor(completed / total * 100), an
\* integer of 0..100, 0 without topics and 100 with every topic completed.
C11_ProgressIsFloorOfShare ==
  [][ \A p \in Workers :
        /\ (get_course(p) /\ resp'[p].status = 200)
             => resp'[p].body[1].progress = Percentage(metas[resp'[p].body[1].slug])
        /\ get_courses(p)
             => \A i \in DOMAIN resp'[p].body :
                  resp'[p].body[i].progress
                    = Percentage(metas[resp'[p].body[i].slug]) ]_vars


\* the places of a content root in the order search walks them: << c, 0, 0 >>
\* is the course of index entry c, << c, m, 0 >> its module m and
\* << c, m, t >> the topic t of that module
RECURSIVE ModulePlaces(_, _)
ModulePlaces(c, m) ==
  LET modules == metas[index[c].slug].modules
  IN IF m > Len(modules) THEN << >>
     ELSE << << c, m, 0 >> >>
          \o [ t \in 1..Len(modules[m].topics) |-> << c, m, t >> ]
          \o ModulePlaces(c, m + 1)

RECURSIVE CoursePlaces(_)
CoursePlaces(c) ==
  IF c > Len(index) THEN << >>
  ELSE (IF index[c].slug \in DOMAIN metas
          THEN << << c, 0, 0 >> >> \o ModulePlaces(c, 1) ELSE << >>)
       \o CoursePlaces(c + 1)

\* the text search compares the query with at a place, and the result for it
PlaceMeta(place) == metas[index[place[1]].slug]
PlaceMatches(place, q) ==
  LET meta == PlaceMeta(place)
      has(text) == substring_in(lower(q), lower(text))
  IN IF place[2] = 0 THEN has(meta.code) \/ has(meta.name)
     ELSE IF place[3] = 0 THEN has(meta.modules[place[2]].title)
     ELSE LET topic == meta.modules[place[2]].topics[place[3]]
              topic_file == TopicFile(index[place[1]].slug, topic)
          IN /\ has(topic.title)
             /\ topic_file \in DOMAIN files
             /\ has(files[topic_file])
PlaceResult(place) ==
  LET meta == PlaceMeta(place)
  IN IF place[2] = 0 THEN CourseResult(meta)
     ELSE IF place[3] = 0 THEN ModuleResult(meta, meta.modules[place[2]])
     ELSE TopicResult(meta, meta.modules[place[2]],
                      meta.modules[place[2]].topics[place[3]])

\* results lists the first SearchLimit (or all) of the matching places, in
\* the order of the walk
FirstMatches(results, q) ==
  LET matches == SelectSeq(CoursePlaces(1), LAMBDA place : PlaceMatches(place, q))
  IN /\ Len(results) = (IF Len(matches) < SearchLimit THEN Len(matches)
                         ELSE SearchLimit)
     /\ \A i \in DOMAIN results : results[i] = PlaceResult(matches[i])

\* C12: search returns at most 20 results: the first 20 (or all) of the matches
\* in the order courses by index, the course before its modules, each module
\* before its topics, modules and topics in stored order.
C12_SearchFirstTwentyInOrder ==
  [][ \A p \in Workers :
        search(p) => /\ resp'[p].status = 200
                     /\ Len(resp'[p].body) <= SearchLimit
                     /\ FirstMatches(resp'[p].body, req'[p].q) ]_vars


\* a search answered with SearchLimit results out of more matches: a module
\* first, then topics of it
C12_Witness ==
  \E p \in Workers :
    /\ req[p].op = "search" /\ resp[p].status = 200
    /\ Len(resp[p].body) = SearchLimit
    /\ Len(Search_untruncated(req[p].q)) > SearchLimit
    /\ resp[p].body[1].type = "module"
    /\ resp[p].body[SearchLimit].type = "topic"


\* the topics of a content root, as places
TopicPlaces == { place \in Range(CoursePlaces(1)) : place[3] # 0 }
PlaceTopic(place) == PlaceMeta(place).modules[place[2]].topics[place[3]]

\* the lower-cased query is in the lower-cased title of the topic and in the
\* lower-cased body of its content file, which exists
TopicHit(place, q) ==
  LET topic == PlaceTopic(place)
      topic_file == TopicFile(index[place[1]].slug, topic)
  IN /\ substring_in(lower(q), lower(topic.title))
     /\ topic_file \in DOMAIN files
     /\ substring_in(lower(q), lower(files[topic_file]))

\* results has a topic-type result for the topic at place
HasTopicResult(results, place) ==
  \E i \in DOMAIN results :
    /\ results[i].type = "topic"
    /\ results[i].course_id = PlaceMeta(place).id
    /\ results[i].module_id = PlaceMeta(place).modules[place[2]].id
    /\ results[i].topic_id = PlaceTopic(place).id

\* C13 as stated: search returns a topic-type result for a topic exactly if the
\* query is in its title and in the body of its content file, and never fails.
C13_TopicResultIffTitleAndContent ==
  [][ \A p \in Workers :
        search(p) => /\ resp'[p].status = 200
                     /\ \A place \in TopicPlaces :
                          HasTopicResult(resp'[p].body, place)
                            <=> TopicHit(place, req'[p].q) ]_vars

\* C13: search never fails; it returns a topic-type result for a topic only if
\* the query is in its title and in the body of its content file (a missing
\* file is no match), and it returns one for every such topic when the search
\* has no more than 20 matches of any type.
C13_TopicResultNeedsTitleAndContent ==
  [][ \A p \in Workers :
        search(p)
          => LET q == req'[p].q
                 results == resp'[p].body
                 hits == { place \in TopicPlaces : TopicHit(place, q) }
                 matches == SelectSeq(CoursePlaces(1),
                                      LAMBDA place : PlaceMatches(place, q))
             IN /\ resp'[p].status = 200
                /\ \A place \in TopicPlaces \ hits : ~HasTopicResult(results, place)
                /\ Len(matches) <= SearchLimit
                     => \A place \in hits : HasTopicResult(results, place) ]_vars

\* a search for "T" answered with the third topic of the first module, but
\* not the first, whose file is gone, and not the second, whose content is
\* "new"; all three titles hold the query
C13_Witness ==
  \E p \in Workers :
    /\ req[p].op = "search" /\ req[p].q = << "T" >> /\ resp[p].status = 200
    /\ { << 1, 1, 1 >>, << 1, 1, 2 >>, << 1, 1, 3 >> } \subseteq TopicPlaces
    /\ FirstFile \notin DOMAIN files
    /\ files[SecondFile] = NewContent
    /\ ~HasTopicResult(resp[p].body, << 1, 1, 1 >>)
    /\ ~HasTopicResult(resp[p].body, << 1, 1, 2 >>)
    /\ HasTopicResult(resp[p].body, << 1, 1, 3 >>)


\* C14: slugify(slugify(x)) = slugify(x) for every text x.
C14_SlugifyIdempotent ==
  [][ \A p \in Workers :
        slugify_again(p) => loc'[p].slug = loc[p].slug ]_vars

\* slugify applied twice to a text of a letter, whitespace, punctuation and a
\* hyphen, which it changed
C14_Witness ==
  /\ started = 2
  /\ req[FirstWorker].title = << "A", " ", "!", "-" >>
  /\ loc[FirstWorker].slug = << "a", "-" >>

\* punctuation: what is neither of \w nor whitespace nor the hyphen
ispunct(c) == ~isword(c) /\ ~isspace(c) /\ c # "-"

\* the text begins or ends with punctuation, with or without whitespace
\* around it
EdgePunctuation(text) ==
  LET inner == strip(text)
  IN inner # << >> /\ (ispunct(Head(inner)) \/ ispunct(inner[Len(inner)]))

\* C15: the slug of a text with leading or trailing punctuation neither
\* begins nor ends with a hyphen.
C15_NoHyphenAtTheEnds ==
  [][ \A p \in Workers :
        (slugify_call(p) /\ EdgePunctuation(req[p].title))
          => LET slug == loc'[p].slug
             IN slug = << >> \/ (Head(slug) # "-" /\ slug[Len(slug)] # "-") ]_vars


\* two of the entries have the same id
HasDuplicateIds(entries) ==
  \E i, j \in DOMAIN entries : i # j /\ entries[i].id = entries[j].id

\* the list worker w appends to, in a course.json: the modules for create_module,
\* the topics of its module for create_topic
Siblings(w, meta) ==
  IF req[w].op = "create_module" THEN meta.modules
  ELSE meta.modules[loc[w].module].topics

\* p is about to save what it appended, q has saved what it appended to the same
\* list, and both had read the same course.json
CreationRace(p, q) ==
  /\ p # q
  /\ req[p].op \in { "create_module", "create_topic" } /\ req[q].op = req[p].op
  /\ pc[p] = req[p].op \o "_save_meta" /\ pc[q] = req[q].op \o "_commit"
  /\ loc[p].slug = loc[q].slug /\ loc[p].module = IF req[p].op = "create_topic"
                                                    THEN loc[q].module ELSE 0
  /\ loc[p].meta # << >>
  /\ metas[loc[p].slug] = loc[q].meta[1]
  /\ Siblings(q, loc[q].meta[1])
       = Append(Siblings(p, loc[p].meta[1]),
                Siblings(q, loc[q].meta[1])[Len(Siblings(q, loc[q].meta[1]))])

CreationSave(p) == create_module_save_meta(p) \/ create_topic_save_meta(p)

SaveLabels ==
  { "create_module_save_meta", "create_topic_save_meta", "update_topic_save_meta" }
SavedLabels ==
  { "create_module_commit", "create_topic_commit", "update_topic_commit_completed" }

\* the request of worker w can be applied to this course.json
Applies(w, meta) ==
  \/ req[w].op = "create_module"
  \/ /\ req[w].op \in { "create_topic", "update_topic" }
     /\ loc[w].module \in DOMAIN meta.modules
     /\ req[w].op = "update_topic"
          => loc[w].topic \in DOMAIN meta.modules[loc[w].module].topics

\* the course.json with the change of worker w, and nothing else
Changed(w, meta) ==
  IF req[w].op = "create_module"
    THEN [ meta EXCEPT !.modules =
             Append(@, NewModule(Len(@) + 1, req[w].title)) ]
  ELSE IF req[w].op = "create_topic"
    THEN [ meta EXCEPT !.modules[loc[w].module].topics =
             Append(@, NewTopic(Len(@) + 1, meta.modules[loc[w].module].slug,
                                req[w].title, req[w].priority, req[w].time)) ]
  ELSE [ meta EXCEPT !.modules[loc[w].module].topics[loc[w].topic].completed =
           req[w].completed ]

\* p is about to save, q has saved a change to the same course.json, and both
\* had loaded the same course.json
SaveRace(p, q) ==
  /\ p # q
  /\ pc[p] \in SaveLabels /\ pc[q] \in SavedLabels
  /\ loc[p].slug = loc[q].slug
  /\ loc[p].meta # << >>
  /\ Applies(q, loc[p].meta[1])
  /\ loc[q].meta[1] = Changed(q, loc[p].meta[1])
  /\ loc[q].meta[1] # loc[p].meta[1]
  /\ metas[loc[p].slug] = loc[q].meta[1]

Save(p) ==
  create_module_save_meta(p) \/ create_topic_save_meta(p) \/ update_topic_save_meta(p)

\* the call of git_commit_push that follows the save
CommitAfterSave(p) ==
  create_module_commit(p) \/ create_topic_commit(p) \/ update_topic_commit_completed(p)

\* C17: when two mutations of a course both load the course.json before either
\* saves it, the course.json after both saves is the one they loaded with the
\* change of the later saver only, and the earlier saver, whose change is gone,
\* is answered with success all the same.
C17_LaterSaveWins ==
  [][ \A p, q \in Workers :
        /\ (SaveRace(p, q) /\ Save(p))
             => metas'[loc[p].slug] = Changed(p, loc[p].meta[1])
        /\ (pc[q] \in SavedLabels /\ metas[loc[q].slug] # loc[q].meta[1]
              /\ CommitAfterSave(q))
             => resp'[q].status \in { 0, 200 } ]_vars

\* the calls of create_course between save_course_meta and save_index
BetweenWrites == { "create_course_load_index", "create_course_save_index" }

IndexSlugs == { e.slug : e \in Range(index) }
ListedSlugs == { course.slug : course \in Range(ListCourses) }

\* worker p stopped in a create_course between its two writes
StoppedBetweenWrites(p) ==
  /\ pc[p] = "idle"
  /\ req[p].op = "create_course"
  /\ resp[p].status = 0 /\ resp[p].detail \in BetweenWrites

\* worker p stops in this step
Stops(p) == pc[p] # "idle" /\ pc'[p] = "idle" /\ resp'[p] = Stopped(pc[p])

\* the two states of a course on the disk: the directory and the course.json
\* without an index entry, the course not in the listing; an index entry whose
\* course.json is missing
Orphaned(course_slug) ==
  /\ << course_slug >> \in dirs
  /\ course_slug \in DOMAIN metas
  /\ course_slug \notin IndexSlugs
  /\ course_slug \notin ListedSlugs
Dangling(course_slug) ==
  /\ course_slug \in IndexSlugs
  /\ course_slug \notin DOMAIN metas

StopBetweenWritesKeepsRecord ==
  [][ /\ \A e \in Range(index') :
           e.slug \notin DOMAIN metas'
             => e \in Range(index) /\ e.slug \notin DOMAIN metas
      /\ \A p \in Workers :
           (pc[p] \in BetweenWrites /\ Stops(p))
             => /\ disk' = disk
                /\ << loc[p].slug >> \in dirs
                /\ loc[p].slug \in DOMAIN metas ]_vars

ReadOnly == { "get_courses", "get_course", "get_topic", "search" }
\* the calls at which a handler is still looking up what the request names
LookupLabels == { "create_topic_load_meta", "update_topic_load_meta" }

\* worker p takes a request in this step
Accepts(p) ==
  /\ started' # started
  /\ pc[p] = "idle"
  /\ p = FirstWorker \/ pc[FirstWorker] # "idle"
\* worker p takes a lookup step
LooksUp(p) == pc[p] \in LookupLabels /\ pc'[p] # pc[p]
\* worker p returns or raises in this step
Answers(p) == pc'[p] = "idle" /\ (Accepts(p) \/ pc[p] # "idle")
\* the step of worker p writes nothing and calls git_commit_push with nothing
NoEffect(p) == disk' = disk /\ loc'[p].commits = << >>

\* C19: a request answered 404 and a request to a handler that only reads
\* leave index.json, every course.json, every content file and every directory
\* as they were and call git_commit_push with nothing: the step that answers
\* has no effect, a 404 is raised only by a handler that has done nothing but
\* look up, and the steps up to the end of the lookups have no effect.
C19_NotFoundAndReadsChangeNothing ==
  [][ \A p \in Workers :
        /\ (Answers(p) /\ resp'[p].status = 404)
             => NoEffect(p) /\ (Accepts(p) \/ LooksUp(p))
        /\ (Answers(p) /\ req'[p].op \in ReadOnly) => NoEffect(p) /\ Accepts(p)
        /\ (Accepts(p) \/ LooksUp(p)) => NoEffect(p) ]_vars

C19_Witness ==
  \E p, q \in Workers :
    /\ p # q
    /\ pc[p] = "idle" /\ pc[q] = "idle"
    /\ req[p].op \in { "create_module", "create_topic", "update_topic" }
    /\ resp[p].status = 404
    /\ req[q].op \in ReadOnly /\ resp[q].status = 200

\* the calls of create_course after os.makedirs and before save_index
AfterMakedirs ==
  { "create_course_id", "create_course_save_meta", "create_course_load_index",
    "create_course_save_index" }

\* worker p stopped in a create_course of this course after creating the
\* directory and before appending to the index
Interrupted(p, course) ==
  /\ pc[p] = "idle"
  /\ req[p].op = "create_course"
  /\ req[p].code = course.code /\ req[p].name = course.name
  /\ resp[p].status = 0 /\ resp[p].detail \in AfterMakedirs

\* C20: once a create_course has stopped after os.makedirs and before
\* save_index, every create_course with the same code and name that is taken
\* afterwards is answered 400 "Course already exists", and the course is in no
\* listing from then on: it is in none when the worker stops, and no step puts
\* it into one.
C20_InterruptedCourseStaysUnlisted ==
  [][ \A p \in Workers : \A course \in CourseCreate :
        LET course_slug == CourseSlug(course.code, course.name) IN
        /\ \A q \in Workers :
             ( /\ Interrupted(p, course)
               /\ Accepts(q)
               /\ req'[q].op = "create_course"
               /\ req'[q].code = course.code /\ req'[q].name = course.name )
               => /\ pc'[q] = "idle"
                  /\ resp'[q] = HTTPException(400, "Course already exists")
        /\ (pc[p] \in AfterMakedirs /\ Stops(p) /\ Interrupted(p, course)')
             => course_slug \notin ListedSlugs'
        /\ (Interrupted(p, course) /\ course_slug \notin ListedSlugs)
             => course_slug \notin ListedSlugs' ]_vars

=============================================================================
